---- MODULE Spec2Model ----
(***************************************************************************)
(* A model of environments/make-env-files.py: the script that renders      *)
(* conda env.yml files and pip requirements.txt files from the dependency  *)
(* lists of pyproject.toml and the environment definitions of              *)
(* environments.json.                                                      *)
(*                                                                         *)
(* A Python str is modelled as a sequence of one-character strings, so     *)
(* that concatenation, endswith, join, splitlines and the code-point order *)
(* that sorted() uses are computed rather than assumed.                    *)
(***************************************************************************)
EXTENDS Integers, Sequences, FiniteSets, TLC

VARIABLES
    pyproject,      \* the loaded pyproject.toml: dependencies, optional groups, requires-python
    envs,           \* the loaded environments.json: a sequence of (name, definition), in file order
    args,           \* args.env_name: None or the name given with -n
    fs,             \* the file system: the text of each file that exists, by path
    fs0,            \* the file system as it was when the run started
    pc,             \* where the run is: "main", "loop", "done", "error"
    env_idx,        \* position of the `for env_name in envs` loop
    stdout,         \* what print() has written: one record per "Wrote N requirements to P"
    requirements,   \* make_file's local `requirements` when it last returned
    calls,          \* the env_name of each make_file call made so far
    error,          \* the exception that ended the run, or NoException
    mr,             \* one call of make_requirement: its arguments and its result
    optional_deps   \* the lists returned by the calls of extract_optional_deps so far

vars == <<pyproject, envs, args, fs, fs0, pc, env_idx, stdout, requirements,
          calls, error, mr, optional_deps>>

\* An optional value (Python's None or a value) is the empty tuple or the
\* 1-tuple of the value.
None == <<>>

Some(x) == <<x>>

\* no exception has been raised
NoException == "none"

(***************************************************************************)
(* Bounds of the model.                                                    *)
(***************************************************************************)
\* most specifier clauses of a requirement that make_requirement is applied to
MaxSpecs == 2
\* most entries of one optional-dependency group
MaxGroupLen == 2
\* most calls of extract_optional_deps in one behaviour
MaxCalls == 2
\* most environments of environments.json in a whole run
MaxEnvs == 3
\* most entries of project.dependencies
MaxDeps == 2
\* most extras files one environment lists
MaxExtras == 2

(***************************************************************************)
(* str: the operations of Python strings the script uses.                  *)
(***************************************************************************)
Letters ==
    <<"a", "b", "c", "d", "e", "f", "g", "h", "i", "j", "k", "l", "m",
      "n", "o", "p", "q", "r", "s", "t", "u", "v", "w", "x", "y", "z">>

Capitals ==
    <<"A", "B", "C", "D", "E", "F", "G", "H", "I", "J", "K", "L", "M",
      "N", "O", "P", "Q", "R", "S", "T", "U", "V", "W", "X", "Y", "Z">>

Digits == <<"0", "1", "2", "3", "4", "5", "6", "7", "8", "9">>

Range(s) == {s[i] : i \in DOMAIN s}

IndexOf(s, c) == CHOOSE i \in DOMAIN s : s[i] = c

\* ord(c): the code point of a character, which is what str comparison compares
ord(c) ==
    CASE c = "\n" -> 10
      [] c = " " -> 32
      [] c = "!" -> 33
      [] c = "#" -> 35
      [] c = "'" -> 39
      [] c = "*" -> 42
      [] c = "," -> 44
      [] c = "-" -> 45
      [] c = "." -> 46
      [] c = "/" -> 47
      [] c \in Range(Digits) -> 47 + IndexOf(Digits, c)
      [] c = ":" -> 58
      [] c = "<" -> 60
      [] c = "=" -> 61
      [] c = ">" -> 62
      [] c \in Range(Capitals) -> 64 + IndexOf(Capitals, c)
      [] c = "_" -> 95
      [] c \in Range(Letters) -> 96 + IndexOf(Letters, c)
      [] c = "~" -> 126

Min(a, b) == IF a <= b THEN a ELSE b

\* s < t for two str: the first differing code point decides, a proper prefix is smaller
StrLess(s, t) ==
    \E i \in 1..(Min(Len(s), Len(t)) + 1) :
        /\ \A j \in 1..(i - 1) : s[j] = t[j]
        /\ \/ i > Len(s) /\ i <= Len(t)
           \/ i <= Len(s) /\ i <= Len(t) /\ ord(s[i]) < ord(t[i])

\* s.endswith(suffix)
endswith(s, suffix) ==
    /\ Len(suffix) <= Len(s)
    /\ SubSeq(s, Len(s) - Len(suffix) + 1, Len(s)) = suffix

\* s.startswith(prefix)
startswith(s, prefix) ==
    /\ Len(prefix) <= Len(s)
    /\ SubSeq(s, 1, Len(prefix)) = prefix

RECURSIVE join(_, _)
\* sep.join(list)
join(sep, list) ==
    IF list = <<>> THEN <<>>
    ELSE IF Len(list) = 1 THEN list[1]
    ELSE list[1] \o sep \o join(sep, Tail(list))

RECURSIVE split(_, _)
\* s.split(sep) for a one-character sep: the pieces between the separators
split(s, sep) ==
    IF \A i \in DOMAIN s : s[i] # sep THEN <<s>>
    ELSE LET k == CHOOSE i \in DOMAIN s : s[i] = sep /\ \A j \in 1..(i - 1) : s[j] # sep
         IN  <<SubSeq(s, 1, k - 1)>> \o split(SubSeq(s, k + 1, Len(s)), sep)

\* s.splitlines(): the lines of s, without their line breaks; a line break that
\* ends s starts no further line, and the empty str has no lines
splitlines(s) ==
    IF s = <<>> THEN <<>>
    ELSE IF s[Len(s)] = "\n" THEN split(SubSeq(s, 1, Len(s) - 1), "\n")
    ELSE split(s, "\n")

RECURSIVE insort(_, _)
\* x put into the sorted list at its place
insort(x, list) ==
    IF list = <<>> THEN <<x>>
    ELSE IF StrLess(list[1], x) THEN <<list[1]>> \o insort(x, Tail(list))
    ELSE <<x>> \o list

RECURSIVE sorted(_)
\* sorted(list) for a list of str
sorted(list) ==
    IF list = <<>> THEN <<>> ELSE insort(list[1], sorted(Tail(list)))

\* the lists that hold each member of the set S exactly once: list(S) is one of
\* them, and which one is up to the hash order of the run
ListsOf(S) ==
    {l \in [1..Cardinality(S) -> S] : \A x \in S : \E i \in DOMAIN l : l[i] = x}

(***************************************************************************)
(* packaging.requirements.Requirement, as far as the script uses it: the   *)
(* name, the specifier set, equality and hashing by value, and str().      *)
(* Extras, URLs and markers do not occur in the inputs of the model, names *)
(* are lower case and versions are written in normal form, so that the     *)
(* canonical forms that equality compares are the written forms.           *)
(***************************************************************************)
NameChars == Range(Letters) \cup Range(Digits) \cup {"-", "_", "."}

OperatorChars == {"<", ">", "=", "!", "~"}

\* the length of the longest prefix of s made of characters of the set cs
PrefixLen(s, cs) ==
    CHOOSE k \in 0..Len(s) :
        /\ \A i \in 1..k : s[i] \in cs
        /\ k < Len(s) => s[k + 1] \notin cs

\* Specifier(clause): the operator and the version of one clause such as ">=1.20"
Specifier(clause) ==
    LET k == PrefixLen(clause, OperatorChars)
    IN  [operator |-> SubSeq(clause, 1, k), version |-> SubSeq(clause, k + 1, Len(clause))]

\* Requirement(text): parse a requirement string; white space between the
\* tokens is dropped, and the clauses become a set (SpecifierSet keeps a frozenset)
Requirement(text) ==
    LET t == SelectSeq(text, LAMBDA c : c # " ")
        n == PrefixLen(t, NameChars)
        rest == SubSeq(t, n + 1, Len(t))
        clauses == IF rest = <<>> THEN <<>> ELSE split(rest, ",")
    IN  [name |-> SubSeq(t, 1, n),
         specifier |-> {Specifier(clauses[i]) : i \in DOMAIN clauses}]

\* str(specifier): the operator followed by the version
SpecifierStr(sp) == sp.operator \o sp.version

\* str(requirement): the name, then the clauses in sorted order joined by ","
RequirementStr(requirement) ==
    LET strs == {SpecifierStr(sp) : sp \in requirement.specifier}
        any == CHOOSE l \in ListsOf(strs) : TRUE
    IN  requirement.name \o join(<<",">>, sorted(any))

(***************************************************************************)
(* make_requirement (lines 40-71).                                         *)
(***************************************************************************)
WILDCARD == <<".", "*">>

\* a slip: the wildcard is appended without looking at what the pin ends with
make_requirement_no_endswith(requirement, force_pin, is_conda) ==
    IF force_pin /\ Cardinality(requirement.specifier) = 1
    THEN LET sp == CHOOSE x \in requirement.specifier : TRUE
             spec == requirement.name \o <<"=", "=">> \o sp.version
         IN  IF is_conda THEN spec \o WILDCARD ELSE spec
    ELSE RequirementStr(requirement)

\* a slip: the wildcard is appended for pip files too
make_requirement_always_conda(requirement, force_pin, is_conda) ==
    IF force_pin /\ Cardinality(requirement.specifier) = 1
    THEN LET sp == CHOOSE x \in requirement.specifier : TRUE
             spec == requirement.name \o <<"=", "=">> \o sp.version
         IN  IF ~endswith(spec, WILDCARD) THEN spec \o WILDCARD ELSE spec
    ELSE RequirementStr(requirement)

\* a slip: any requirement that has a specifier is pinned to one of them
make_requirement_pin_any(requirement, force_pin, is_conda) ==
    IF force_pin /\ Cardinality(requirement.specifier) >= 1
    THEN LET sp == CHOOSE x \in requirement.specifier : TRUE
             spec == requirement.name \o <<"=", "=">> \o sp.version
         IN  IF is_conda /\ ~endswith(spec, WILDCARD) THEN spec \o WILDCARD ELSE spec
    ELSE RequirementStr(requirement)

make_requirement(requirement, force_pin, is_conda) ==
    IF force_pin /\ Cardinality(requirement.specifier) = 1
    THEN LET sp == CHOOSE x \in requirement.specifier : TRUE
             spec == requirement.name \o <<"=", "=">> \o sp.version
         IN  IF is_conda /\ ~endswith(spec, WILDCARD) THEN spec \o WILDCARD ELSE spec
    ELSE RequirementStr(requirement)

(***************************************************************************)
(* The requirement strings the model draws its inputs from.                *)
(***************************************************************************)
SeqsUpTo(S, n) == UNION {[1..k -> S] : k \in 0..n}

PackageNames == {<<"a">>, <<"b">>}

Versions == {<<"1">>, <<"2", ".", "1">>, <<"1", ".", "*">>}

Operators == {<<">", "=">>, <<"=", "=">>, <<"<">>}

\* a version that ends in a wildcard is only valid after "==" (and "!=")
Clauses ==
    {op \o v : <<op, v>> \in
        {c \in Operators \X Versions : endswith(c[2], WILDCARD) => c[1] = <<"=", "=">>}}

RequirementTexts ==
    {n \o join(<<",">>, cl) : <<n, cl>> \in PackageNames \X SeqsUpTo(Clauses, MaxSpecs)}

(***************************************************************************)
(* Module-level constants of the script (lines 19-25). HEADER keeps its    *)
(* three comment lines; the wording of the lines is shortened.             *)
(***************************************************************************)
CHANNELS == <<<<"c", "o", "n", "d", "a", "-", "f", "o", "r", "g", "e">>>>

HEADER ==
    <<"#", " ", "D", "o", " ", "n", "o", "t", " ", "e", "d", "i", "t", "\n">>
    \o <<"#", " ", "e", "n", "v", "i", "r", "o", "n", "m", "e", "n", "t", "s", "\n">>
    \o <<"#", " ", "e", "n", "v", "i", "r", "o", "n", "m", "e", "n", "t", "s", "\n">>

(***************************************************************************)
(* extract_optional_deps (lines 28-37).                                    *)
(***************************************************************************)
RECURSIVE chain(_)
\* itertools.chain.from_iterable(groups): the entries of all groups, in order
chain(groups) ==
    IF groups = <<>> THEN <<>> ELSE groups[1] \o chain(Tail(groups))

\* a slip: the requirements are listed without going through a set
extract_optional_deps_no_set(project) ==
    LET o == chain(project.optional_dependencies)
    IN  {[i \in DOMAIN o |-> Requirement(o[i])]}

\* The lists extract_optional_deps may return for the manifest `project` (the
\* script reads the global pyproject): list() of a set, in the set's order.
extract_optional_deps(project) ==
    LET o == chain(project.optional_dependencies)
    IN  ListsOf({Requirement(o[i]) : i \in DOMAIN o})

(***************************************************************************)
(* make_file (lines 74-134), as a function of what it reads: the manifest, *)
(* the configuration, the name, the list extract_optional_deps returned    *)
(* and the file system.                                                    *)
(***************************************************************************)
\* `env_name in envs`: whether envs[env_name] (line 87) finds a definition
known(config, env_name) == \E i \in DOMAIN config : config[i].name = env_name

\* envs[env_name] (line 87), for a name that is a key
lookup(config, env_name) ==
    config[CHOOSE i \in DOMAIN config : config[i].name = env_name]

\* Path(p).open() for reading succeeds when the file exists
exists(fsys, path) == path \in DOMAIN fsys

\* Path(p).open("w") followed by writelines(text): the file is created or replaced
write_file(fsys, path, text) ==
    [q \in DOMAIN fsys \cup {path} |-> IF q = path THEN text ELSE fsys[q]]

\* line 91
is_conda_file(env) == endswith(env.output_path, <<".", "y", "m", "l">>)

\* lines 94-103: the requirements the flags of the environment select
depends_on(project, env, optionals) ==
    (IF env.needs_python
     THEN <<Requirement(<<"p", "y", "t", "h", "o", "n">> \o project.requires_python)>> ELSE <<>>)
    \o (IF env.needs_dependencies
        THEN [i \in DOMAIN project.dependencies |-> Requirement(project.dependencies[i])]
        ELSE <<>>)
    \o (IF env.needs_optionals THEN optionals ELSE <<>>)

\* lines 111-113: some extras file cannot be opened
extras_missing(env, fsys) ==
    /\ env.extras # None
    /\ \E i \in DOMAIN env.extras[1] : ~exists(fsys, env.extras[1][i])

\* lines 111-114: the lines of the extras files, in the order the files are listed
extras_lines(env, fsys) ==
    IF env.extras = None THEN <<>>
    ELSE chain([i \in DOMAIN env.extras[1] |-> splitlines(fsys[env.extras[1][i]])])

\* a slip: the rendered requirements are sorted before the extras are appended
requirements_list_sorted_early(project, env, optionals, fsys) ==
    LET deps == depends_on(project, env, optionals)
        rendered == [i \in DOMAIN deps |->
                        make_requirement(deps[i], env.force_pin, is_conda_file(env))]
    IN  sorted(rendered) \o extras_lines(env, fsys)

\* lines 106-117: the rendered requirements, then the extras, sorted together
requirements_list(project, env, optionals, fsys) ==
    LET deps == depends_on(project, env, optionals)
        rendered == [i \in DOMAIN deps |->
                        make_requirement(deps[i], env.force_pin, is_conda_file(env))]
    IN  sorted(rendered \o extras_lines(env, fsys))

\* line 125: one key of the yml file whose value is a list
yml_list(k, v) ==
    k \o <<":", "\n", " ", " ", "-", " ">> \o join(<<"\n", " ", " ", "-", " ">>, v) \o <<"\n">>

\* line 127: one key of the yml file whose value is a str
yml_str(k, v) == k \o <<":", " ">> \o v \o <<"\n">>

\* lines 118-128: the text of the file
file_text(env_name, env, reqs) ==
    IF ~is_conda_file(env)
    THEN HEADER \o join(<<"\n">>, reqs) \o <<"\n">>
    ELSE HEADER
         \o yml_str(<<"n", "a", "m", "e">>, env_name)
         \o yml_list(<<"c", "h", "a", "n", "n", "e", "l", "s">>, CHANNELS)
         \o yml_list(<<"d", "e", "p", "e", "n", "d", "e", "n", "c", "i", "e", "s">>, reqs)

\* a slip: a name that is no key falls back on the first environment
make_file_outcome_default_env(project, config, env_name, optionals, fsys) ==
    IF ~known(config, env_name) /\ config = <<>>
    THEN [error |-> "KeyError", fs |-> fsys, requirements |-> <<>>, printed |-> <<>>]
    ELSE LET env == IF known(config, env_name) THEN lookup(config, env_name)
                    ELSE config[1]
         IN  IF extras_missing(env, fsys)
             THEN [error |-> "FileNotFoundError", fs |-> fsys, requirements |-> <<>>,
                   printed |-> <<>>]
             ELSE LET reqs == requirements_list(project, env, optionals, fsys)
                  IN  [error |-> NoException,
                       fs |-> write_file(fsys, env.output_path,
                                         file_text(env_name, env, reqs)),
                       requirements |-> reqs,
                       printed |-> <<[count |-> Len(reqs), path |-> env.output_path]>>]

\* a slip: the output file is opened for writing before the extras are read
make_file_outcome_open_first(project, config, env_name, optionals, fsys) ==
    IF ~known(config, env_name)
    THEN [error |-> "KeyError", fs |-> fsys, requirements |-> <<>>, printed |-> <<>>]
    ELSE LET env == lookup(config, env_name)
         IN  IF extras_missing(env, fsys)
             THEN [error |-> "FileNotFoundError",
                   fs |-> write_file(fsys, env.output_path, <<>>),
                   requirements |-> <<>>, printed |-> <<>>]
             ELSE LET reqs == requirements_list(project, env, optionals, fsys)
                  IN  [error |-> NoException,
                       fs |-> write_file(fsys, env.output_path,
                                         file_text(env_name, env, reqs)),
                       requirements |-> reqs,
                       printed |-> <<[count |-> Len(reqs), path |-> env.output_path]>>]

\* What one call make_file(env_name) does: the exception it raises (or NoException),
\* the file system it leaves, its `requirements` and what it prints.
make_file_outcome(project, config, env_name, optionals, fsys) ==
    IF ~known(config, env_name)
    THEN [error |-> "KeyError", fs |-> fsys, requirements |-> <<>>, printed |-> <<>>]
    ELSE LET env == lookup(config, env_name)
         IN  IF extras_missing(env, fsys)
             THEN [error |-> "FileNotFoundError", fs |-> fsys, requirements |-> <<>>,
                   printed |-> <<>>]
             ELSE LET reqs == requirements_list(project, env, optionals, fsys)
                  IN  [error |-> NoException,
                       fs |-> write_file(fsys, env.output_path,
                                         file_text(env_name, env, reqs)),
                       requirements |-> reqs,
                       printed |-> <<[count |-> Len(reqs), path |-> env.output_path]>>]

(***************************************************************************)
(* The inputs of a run: file names, manifests, environment definitions and *)
(* file systems.                                                           *)
(***************************************************************************)
A_YML == <<"a", ".", "y", "m", "l">>
B_YML == <<"b", ".", "y", "m", "l">>
R_TXT == <<"r", ".", "t", "x", "t">>
\* an extras file that exists
X_TXT == <<"x", ".", "t", "x", "t">>
\* an extras file that does not exist
M_TXT == <<"m", ".", "t", "x", "t">>

\* The key of the i-th environment of environments.json: "e1", "e2", ...
EnvName(i) == <<"e", Digits[i + 1]>>

\* a name that is no key of environments.json
NoSuchEnv == <<"z">>

\* project.dependencies is a prefix of this list
BaseDependencies ==
    <<<<"b", ">", "=", "2", ".", "1", ",", "<", "3">>, <<"a", ">", "=", "1">>, <<"c">>>>

DependencyLists ==
    {SubSeq(BaseDependencies, 1, k) : k \in 0..Min(MaxDeps, Len(BaseDependencies))}

\* project.optional-dependencies: no group, one group, or two groups that share
\* a requirement with each other and with project.dependencies
OptionalGroups ==
    <<<<<<"a", ">", "=", "1">>, <<"b", "=", "=", "1", ".", "*">>>>, <<<<"a", " ", ">", "=", "1">>>>>>

OptionalMappings == {SubSeq(OptionalGroups, 1, k) : k \in 0..Len(OptionalGroups)}

Manifests ==
    [dependencies : DependencyLists,
     optional_dependencies : OptionalMappings,
     requires_python : {<<">", "=", "3", ".", "9">>}]

\* what the extras file that exists may hold: two lines, of which one is also a
\* rendered dependency and the other sorts before it; or nothing
ExtrasTexts == {<<"a", ">", "=", "1", "\n", "a", "=", "=", "1", ".", "*", "\n">>, <<>>}

\* a file left by an earlier run
OldText == HEADER \o <<"o", "l", "d", "\n">>

\* the file systems a run may start in: X_TXT exists, M_TXT does not, and the
\* output files are all there from an earlier run or all absent
FileSystems ==
    {[q \in {X_TXT} |-> x] : x \in ExtrasTexts}
    \cup {[q \in {X_TXT, A_YML, B_YML, R_TXT} |-> IF q = X_TXT THEN x ELSE OldText] :
            x \in ExtrasTexts}

\* "extras": null or a list of up to MaxExtras paths
ExtrasOptions == {None} \cup {Some(l) : l \in SeqsUpTo({X_TXT, M_TXT}, MaxExtras)}

\* every definition of one environment (the value of one key of environments.json)
Definitions ==
    [needs_python : BOOLEAN,
     needs_dependencies : BOOLEAN,
     needs_optionals : BOOLEAN,
     force_pin : BOOLEAN,
     extras : ExtrasOptions,
     output_path : {A_YML, R_TXT}]

Definition(py, deps, opts, pin, extras, path) ==
    [needs_python |-> py, needs_dependencies |-> deps,
     needs_optionals |-> opts, force_pin |-> pin, extras |-> extras,
     output_path |-> path]

\* the definitions the environments of a whole run are drawn from: a pinned
\* conda file, a pip file with an extras file that exists, a conda file with an
\* extras file that is missing after one that exists, and a conda file whose
\* extras file is the output path of the pip file
RunDefinitions ==
    {Definition(TRUE, TRUE, TRUE, TRUE, None, A_YML),
     Definition(FALSE, TRUE, FALSE, FALSE, Some(<<X_TXT>>), R_TXT),
     Definition(FALSE, FALSE, TRUE, FALSE, Some(<<X_TXT, M_TXT>>), A_YML),
     Definition(FALSE, FALSE, TRUE, TRUE, Some(<<R_TXT>>), B_YML)}

\* configurations of n environments "e1".."en", each with a definition of D; an
\* element of envs is the key together with the fields of its value
Configurations(D, n) ==
    {[i \in 1..n |-> [name |-> EnvName(i)] @@ c[i]] : c \in [1..n -> D]}

\* the manifests of a whole run
RunManifests ==
    {m \in Manifests :
        /\ Len(m.dependencies) = Min(MaxDeps, Len(BaseDependencies))
        /\ Len(m.optional_dependencies) = Len(OptionalGroups)}

EmptyManifest ==
    [dependencies |-> <<>>, optional_dependencies |-> <<>>, requires_python |-> <<>>]

(***************************************************************************)
(* The run of the script (lines 137-155). The initial state is the state   *)
(* after both input files are loaded and the command line is parsed.       *)
(***************************************************************************)
NoCalls ==
    /\ mr = [requirement |-> Requirement(<<>>), force_pin |-> FALSE,
             is_conda |-> FALSE, result |-> None]
    /\ optional_deps = <<>>

Started ==
    /\ fs0 = fs
    /\ pc = "main"
    /\ env_idx = 1
    /\ stdout = <<>>
    /\ requirements = <<>>
    /\ calls = <<>>
    /\ error = NoException

\* a whole run: any configuration of up to MaxEnvs environments, with or without -n
Init ==
    /\ pyproject \in RunManifests
    /\ envs \in UNION {Configurations(RunDefinitions, n) : n \in 0..MaxEnvs}
    /\ args \in {None, Some(NoSuchEnv)} \cup {Some(EnvName(i)) : i \in 1..MaxEnvs}
    /\ fs \in FileSystems
    /\ Started
    /\ NoCalls

\* a run over a single environment, of any definition
InitFile ==
    /\ pyproject \in Manifests
    /\ envs \in Configurations(Definitions, 1)
    /\ args \in {None, Some(EnvName(1))}
    /\ fs \in FileSystems
    /\ Started
    /\ NoCalls

\* make_file(env_name), called from the main block: the file system, the output
\* and the exception after the call
make_file(env_name) ==
    \E optionals \in extract_optional_deps(pyproject) :
        LET o == make_file_outcome(pyproject, envs, env_name, optionals, fs)
        IN  /\ fs' = o.fs
            /\ stdout' = stdout \o o.printed
            /\ requirements' = IF o.error = NoException THEN o.requirements ELSE requirements
            /\ calls' = Append(calls, env_name)
            /\ error' = o.error

\* lines 149-151: -n was given, make that file only
MakeSelected ==
    /\ pc = "main"
    /\ args # None
    /\ make_file(args[1])
    /\ pc' = IF error' = NoException THEN "done" ELSE "error"
    /\ UNCHANGED <<pyproject, envs, args, fs0, env_idx, mr, optional_deps>>

\* a slip: an environment that fails is skipped and the loop goes on
MakeNext_skip_failed ==
    /\ pc = "main"
    /\ args = None
    /\ env_idx <= Len(envs)
    /\ make_file(envs[env_idx].name)
    /\ pc' = "main"
    /\ env_idx' = env_idx + 1
    /\ UNCHANGED <<pyproject, envs, args, fs0, mr, optional_deps>>

\* lines 154-155: one iteration of `for env_name in envs`
MakeNext ==
    /\ pc = "main"
    /\ args = None
    /\ env_idx <= Len(envs)
    /\ make_file(envs[env_idx].name)
    /\ pc' = IF error' = NoException THEN "main" ELSE "error"
    /\ env_idx' = IF error' = NoException THEN env_idx + 1 ELSE env_idx
    /\ UNCHANGED <<pyproject, envs, args, fs0, mr, optional_deps>>

\* a slip: the script may end after the first environment
Finish_after_first ==
    /\ pc = "main"
    /\ args = None
    /\ env_idx > Min(1, Len(envs))
    /\ pc' = "done"
    /\ UNCHANGED <<pyproject, envs, args, fs, fs0, env_idx, stdout, requirements,
                   calls, error, mr, optional_deps>>

\* line 154: the loop is exhausted and the script ends
Finish ==
    /\ pc = "main"
    /\ args = None
    /\ env_idx > Len(envs)
    /\ pc' = "done"
    /\ UNCHANGED <<pyproject, envs, args, fs, fs0, env_idx, stdout, requirements,
                   calls, error, mr, optional_deps>>

Next == MakeSelected \/ MakeNext \/ Finish

Spec == Init /\ [][Next]_vars

SpecFile == InitFile /\ [][Next]_vars

(***************************************************************************)
(* make_requirement on its own: any requirement of up to MaxSpecs clauses, *)
(* any flags, one call.                                                    *)
(***************************************************************************)
NoRun ==
    /\ pyproject = EmptyManifest
    /\ envs = <<>>
    /\ args = None
    /\ fs = <<>>
    /\ fs0 = <<>>
    /\ pc = "idle"
    /\ env_idx = 1
    /\ stdout = <<>>
    /\ requirements = <<>>
    /\ calls = <<>>
    /\ error = NoException

InitReq ==
    /\ mr \in [requirement : {Requirement(t) : t \in RequirementTexts},
               force_pin : BOOLEAN, is_conda : BOOLEAN, result : {None}]
    /\ optional_deps = <<>>
    /\ NoRun

CallMakeRequirement ==
    /\ mr.result = None
    /\ mr' = [mr EXCEPT !.result = Some(make_requirement(mr.requirement, mr.force_pin,
                                                          mr.is_conda))]
    /\ UNCHANGED <<pyproject, envs, args, fs, fs0, pc, env_idx, stdout, requirements,
                   calls, error, optional_deps>>

SpecReq == InitReq /\ [][CallMakeRequirement]_vars

(***************************************************************************)
(* extract_optional_deps on its own: any mapping of up to two groups of up *)
(* to MaxGroupLen entries, called up to MaxCalls times.                    *)
(***************************************************************************)
OptionalTexts == {<<"a", ">", "=", "1">>, <<"a", " ", ">", "=", "1">>, <<"b", "=", "=", "1", ".", "*">>}

Groups == SeqsUpTo(OptionalTexts, MaxGroupLen)

InitOpt ==
    /\ pyproject \in [dependencies : {<<>>},
                      optional_dependencies :
                          {<<>>} \cup {<<g>> : g \in Groups} \cup (Groups \X Groups),
                      requires_python : {<<>>}]
    /\ envs = <<>>
    /\ args = None
    /\ fs = <<>>
    /\ fs0 = <<>>
    /\ pc = "idle"
    /\ env_idx = 1
    /\ stdout = <<>>
    /\ requirements = <<>>
    /\ calls = <<>>
    /\ error = NoException
    /\ NoCalls

CallExtractOptionalDeps ==
    /\ Len(optional_deps) < MaxCalls
    /\ \E l \in extract_optional_deps(pyproject) :
           optional_deps' = Append(optional_deps, l)
    /\ UNCHANGED <<pyproject, envs, args, fs, fs0, pc, env_idx, stdout, requirements,
                   calls, error, mr>>

SpecOpt == InitOpt /\ [][CallExtractOptionalDeps]_vars

(***************************************************************************)
(* Claims about make_requirement, checked under SpecReq.                   *)
(***************************************************************************)
\* the call of make_requirement has returned
Returned == mr.result # None

\* the requirement has exactly one specifier clause
OneSpecifier == Cardinality(mr.requirement.specifier) = 1

\* "<name>==<version>" for the requirement's one clause
Pinned ==
    LET sp == CHOOSE x \in mr.requirement.specifier : TRUE
    IN  mr.requirement.name \o <<"=", "=">> \o sp.version

\* the version of the requirement's one clause ends in ".*"
WildcardVersion ==
    \E sp \in mr.requirement.specifier : endswith(sp.version, WILDCARD)

\* C2 as stated: with force_pin and is_conda, every requirement with exactly one
\* specifier clause, a version that already ends in a wildcard included, comes
\* back as "<name>==<version>.*": the name, "==", the version, then ".*".
C2_Original ==
    (Returned /\ OneSpecifier /\ mr.force_pin /\ mr.is_conda)
        => mr.result = Some(Pinned \o WILDCARD)

\* C2 as amended: with force_pin and is_conda, a requirement with exactly one
\* specifier clause comes back as "<name>==<version>.*" when the version does
\* not end in ".*", and as "<name>==<version>" when it does: the result ends in
\* one wildcard suffix, never in two.
C2_PinnedCondaEndsInOneWildcard ==
    (Returned /\ OneSpecifier /\ mr.force_pin /\ mr.is_conda)
        => /\ mr.result = Some(IF WildcardVersion THEN Pinned ELSE Pinned \o WILDCARD)
           /\ endswith(mr.result[1], WILDCARD)
           /\ ~endswith(mr.result[1], WILDCARD \o WILDCARD)

\* C2's case: a conda pin of a requirement whose version already ends in ".*"
C2_Witness ==
    Returned /\ OneSpecifier /\ mr.force_pin /\ mr.is_conda /\ WildcardVersion

\* C3 as stated: with force_pin and without is_conda, every requirement with
\* exactly one specifier clause comes back as "<name>==<version>", and the
\* result never ends in ".*".
C3_Original ==
    (Returned /\ OneSpecifier /\ mr.force_pin /\ ~mr.is_conda)
        => /\ mr.result = Some(Pinned)
           /\ ~endswith(mr.result[1], WILDCARD)

\* C3 as amended: with force_pin and without is_conda, a requirement with
\* exactly one specifier clause comes back as "<name>==<version>" with nothing
\* appended: the result ends in ".*" exactly when the version itself does.
C3_PinnedPipAddsNoWildcard ==
    (Returned /\ OneSpecifier /\ mr.force_pin /\ ~mr.is_conda)
        => /\ mr.result = Some(Pinned)
           /\ endswith(mr.result[1], WILDCARD) <=> WildcardVersion

\* C3's case: a pip pin of a requirement whose version already ends in ".*"
C3_Witness ==
    Returned /\ OneSpecifier /\ mr.force_pin /\ ~mr.is_conda /\ WildcardVersion

Shuffles(list) ==
    {[i \in DOMAIN list |-> list[p[i]]] : p \in Permutations(DOMAIN list)}

\* the manifest with its groups, and the entries of each group, in any order
Rearranged(project) ==
    UNION {
        {[project EXCEPT !.optional_dependencies = h] :
            h \in {x \in [DOMAIN g -> UNION {Shuffles(g[i]) : i \in DOMAIN g}] :
                      \A i \in DOMAIN g : x[i] \in Shuffles(g[i])}}
        : g \in Shuffles(project.optional_dependencies)}

\* the requirements that occur in some optional group
InSomeGroup ==
    LET groups == pyproject.optional_dependencies
    IN  UNION {{Requirement(groups[g][i]) : i \in DOMAIN groups[g]} : g \in DOMAIN groups}

\* C5: every list extract_optional_deps returns holds each requirement of any
\* optional group exactly once and nothing else; the set is the same for every
\* order of the groups and of the entries of a group, and for every call; no
\* requirement in any group gives the empty list.
C5_UnionOfGroups ==
    /\ \A k \in DOMAIN optional_deps :
           LET l == optional_deps[k]
           IN  /\ \A r \in InSomeGroup : Cardinality({j \in DOMAIN l : l[j] = r}) = 1
               /\ Range(l) \subseteq InSomeGroup
               /\ \A k2 \in DOMAIN optional_deps : Range(optional_deps[k2]) = Range(l)
               /\ InSomeGroup = {} => l = <<>>
    /\ optional_deps # <<>>
           => \A p \in Rearranged(pyproject) :
                  \A l2 \in extract_optional_deps(p) : Range(l2) = Range(optional_deps[1])

\* C5's case: two calls have returned, and two groups hold the same requirement
C5_Witness ==
    /\ Len(optional_deps) = 2
    /\ LET groups == pyproject.optional_dependencies
       IN  /\ Len(groups) = 2
           /\ \E i \in DOMAIN groups[1], j \in DOMAIN groups[2] :
                  Requirement(groups[1][i]) = Requirement(groups[2][j])
           /\ Cardinality(InSomeGroup) = 2

(***************************************************************************)
(* Claims about one call of make_file, checked under SpecFile: one         *)
(* environment of any definition.                                          *)
(***************************************************************************)
\* make_file has returned (it prints as its last step)
Wrote == stdout # <<>>

\* the environment of the latest call of make_file
CalledEnv == lookup(envs, calls[Len(calls)])

\* the strings make_file collects before it sorts: the rendered dependencies
\* and the lines of the extras files as they were when the run started
Collected(env) ==
    LET optionals == CHOOSE l \in extract_optional_deps(pyproject) : TRUE
        deps == depends_on(pyproject, env, optionals)
    IN  [i \in DOMAIN deps |->
            make_requirement(deps[i], env.force_pin, is_conda_file(env))]
        \o extras_lines(env, fs0)

\* how often x occurs in the list
Count(list, x) == Cardinality({i \in DOMAIN list : list[i] = x})

IsSorted(list) ==
    \A i, j \in DOMAIN list : i < j => ~StrLess(list[j], list[i])

\* C1 as stated: the requirement list make_file writes is sorted and holds no
\* string twice, also when a requirement is both a base dependency and in an
\* optional group, or both rendered and a line of an extras file.
C1_Original ==
    Wrote => /\ IsSorted(requirements)
             /\ \A i, j \in DOMAIN requirements :
                    i # j => requirements[i] # requirements[j]

\* C1 as amended: the requirement list make_file writes is sorted, extras
\* included, and is not deduplicated: it holds every rendered dependency and
\* every extras line as often as the flags and the extras files give it, so a
\* string that is rendered from a base dependency and from an optional group,
\* or that is also a line of an extras file, is written twice.
C1_SortedWithDuplicates ==
    Wrote => /\ IsSorted(requirements)
             /\ Len(requirements) = Len(Collected(CalledEnv))
             /\ \A x \in Range(requirements) \cup Range(Collected(CalledEnv)) :
                    Count(requirements, x) = Count(Collected(CalledEnv), x)

\* C1's case: the list written holds a string twice, and an extras line was sorted
\* in before a rendered dependency
C1_Witness ==
    /\ Wrote
    /\ \E i, j \in DOMAIN requirements : i < j /\ requirements[i] = requirements[j]
    /\ CalledEnv.needs_dependencies /\ CalledEnv.needs_optionals
    /\ CalledEnv.extras = Some(<<X_TXT>>)
    /\ fs0[X_TXT] # <<>>

\* C9: when an extras file an environment lists is missing, make_file raises
\* the I/O error and leaves the file system as it was (the output file is not
\* created, truncated or changed) and prints nothing, however many extras
\* files it read before.
C9_MissingExtrasLeavesOutput ==
    [][(calls' # calls /\ known(envs, calls'[Len(calls')])
                       /\ extras_missing(lookup(envs, calls'[Len(calls')]), fs))
          => (error' = "FileNotFoundError" /\ fs' = fs /\ stdout' = stdout
              /\ pc' = "error")]_vars

\* C9's case: the second extras file is missing, the first was read, and the
\* output file exists from an earlier run
C9_Witness ==
    /\ error = "FileNotFoundError"
    /\ CalledEnv.extras = Some(<<X_TXT, M_TXT>>)
    /\ CalledEnv.output_path \in DOMAIN fs
    /\ fs[CalledEnv.output_path] = OldText

\* the text of a generated file after its header
Body(text) == SubSeq(text, Len(HEADER) + 1, Len(text))

\* the requirement entries of a generated file: the lines after the header of a
\* pip file, the "  - " items under `dependencies:` of a conda file
Entries(text, conda) ==
    LET lines == splitlines(Body(text))
    IN  IF ~conda THEN lines
        ELSE LET d == CHOOSE i \in DOMAIN lines :
                          /\ lines[i] = <<"d", "e", "p", "e", "n", "d", "e", "n", "c", "i", "e", "s", ":">>
                          /\ \A j \in 1..(i - 1) : lines[j] # lines[i]
             IN  SelectSeq(SubSeq(lines, d + 1, Len(lines)),
                           LAMBDA l : startswith(l, <<" ", " ", "-", " ">>))

\* the message make_file printed last, and what it says about the file
Reported == stdout[Len(stdout)]

\* C10 as stated: the count make_file reports is the number of requirement
\* entries of the file it wrote, and the number of selected dependencies plus
\* extras lines, also when the count is zero.
C10_Original ==
    Wrote => /\ Reported.count = Len(Collected(CalledEnv))
             /\ Reported.count
                  = Len(Entries(fs[Reported.path], is_conda_file(CalledEnv)))

\* C10 for one or more requirements: the count, the list and the entries of the
\* file agree.
C10_NonEmpty ==
    (Wrote /\ Reported.count >= 1)
        => /\ Reported.count = Len(Collected(CalledEnv))
           /\ Entries(fs[Reported.path], is_conda_file(CalledEnv))
                = IF is_conda_file(CalledEnv)
                  THEN [i \in DOMAIN requirements |-> <<" ", " ", "-", " ">> \o requirements[i]]
                  ELSE requirements

\* C10 for no requirement: the file still holds one entry, which is empty.
C10_Empty ==
    (Wrote /\ Reported.count = 0)
        => Len(Entries(fs[Reported.path], is_conda_file(CalledEnv))) = 1

(***************************************************************************)
(* Claims about a whole run, checked under Spec: up to MaxEnvs             *)
(* environments, with or without -n.                                       *)
(***************************************************************************)
\* the file at path is in fsys exactly as it is in fs0: absent in both, or the same text
Untouched(fsys, path) ==
    /\ path \in DOMAIN fsys <=> path \in DOMAIN fs0
    /\ path \in DOMAIN fsys => fsys[path] = fs0[path]

AllPaths == {A_YML, B_YML, R_TXT, X_TXT, M_TXT}

\* C6: when -n names an environment that is no key of the configuration, the
\* run ends with the lookup error, no file is written and every file is as it
\* was before the run.
C6_UnknownNameWritesNothing ==
    (args # None /\ ~known(envs, args[1]) /\ pc # "main")
        => /\ pc = "error"
           /\ error = "KeyError"
           /\ stdout = <<>>
           /\ \A p \in AllPaths : Untouched(fs, p)

\* C6's case: the run has ended on a name that is no key, with environments
\* configured and their output files there from an earlier run
C6_Witness ==
    /\ args = Some(NoSuchEnv)
    /\ pc = "error"
    /\ Len(envs) >= 1
    /\ A_YML \in DOMAIN fs0

RECURSIVE FsAfter(_)
\* the file system after make_file has succeeded for the first k environments
FsAfter(k) ==
    IF k = 0 THEN fs0
    ELSE make_file_outcome(pyproject, envs, envs[k].name,
                           CHOOSE l \in extract_optional_deps(pyproject) : TRUE,
                           FsAfter(k - 1)).fs

\* C7: without -n the environments are processed in configuration order, and
\* when the k-th fails the run stops there: make_file was called for 1..k and
\* no other, the files of 1..k-1 are written and are as make_file left them,
\* every other file is as it was before the run, and no step follows.
C7_FailureKeepsEarlierFiles ==
    /\ (args = None /\ error # NoException) => pc = "error"
    /\ (args = None /\ pc = "error")
        => /\ env_idx \in DOMAIN envs
           /\ calls = [j \in 1..env_idx |-> envs[j].name]
           /\ stdout = [j \in 1..(env_idx - 1) |->
                           [count |-> stdout[j].count, path |-> envs[j].output_path]]
           /\ \A j \in 1..(env_idx - 1) :
                  /\ envs[j].output_path \in DOMAIN fs
                  /\ startswith(fs[envs[j].output_path], HEADER)
           /\ fs = FsAfter(env_idx - 1)
           /\ \A p \in AllPaths :
                  (\A j \in 1..(env_idx - 1) : envs[j].output_path # p)
                      => Untouched(fs, p)
           /\ ~ENABLED Next

\* C7's case: the second of three environments failed; the file of the first is
\* written, and the file of the third, which is not the first's, is still absent
C7_Witness ==
    /\ args = None
    /\ pc = "error"
    /\ Len(envs) = 3
    /\ env_idx = 2
    /\ envs[1].output_path \notin DOMAIN fs0
    /\ envs[1].output_path \in DOMAIN fs
    /\ envs[3].output_path # envs[1].output_path
    /\ envs[3].output_path \notin DOMAIN fs

\* C8: with -n, make_file is called for that name only and no file but that
\* environment's output_path is written; without -n, a run that ends without an
\* error has called make_file exactly once for every environment, in order, and
\* has written every configured output_path.
C8_SelectedOrAll ==
    /\ args # None
        => /\ calls \in {<<>>, <<args[1]>>}
           /\ pc # "main" => calls = <<args[1]>>
           /\ \A p \in AllPaths :
                  ~Untouched(fs, p)
                      => known(envs, args[1]) /\ p = lookup(envs, args[1]).output_path
    /\ (args = None /\ pc = "done")
        => /\ error = NoException
           /\ calls = [j \in DOMAIN envs |-> envs[j].name]
           /\ Len(stdout) = Len(envs)
           /\ \A j \in DOMAIN envs :
                  /\ stdout[j].path = envs[j].output_path
                  /\ envs[j].output_path \in DOMAIN fs
                  /\ startswith(fs[envs[j].output_path], HEADER)
           /\ fs = FsAfter(Len(envs))

\* C8's case: a run without -n over three environments has ended without an
\* error, and none of the output files existed before
C8_Witness ==
    /\ args = None
    /\ pc = "done"
    /\ Len(envs) = 3
    /\ \A j \in DOMAIN envs : envs[j].output_path \notin DOMAIN fs0
    /\ \E j \in DOMAIN envs : envs[j].output_path # envs[1].output_path

====
